---- MODULE Spec2Model ----
(***************************************************************************)
(* Model of dags/snowflake_vertex_pipeline.py: the Airflow DAG            *)
(* snowflake_vertex_ai_pipeline                                           *)
(*     extract_new_entries >> call_vertex_ai_agent >> update_watermark    *)
(* together with the parts of its environment the three tasks talk to:    *)
(* the Airflow Variable store, the XCom store of the current DAG run, the *)
(* Snowflake table, the Vertex AI SDK and the Airflow scheduler (retries, *)
(* trigger rule all_success, max_active_runs).                            *)
(*                                                                         *)
(* Python strings that are compared or ordered (the high-water-mark) are  *)
(* sequences of character codes, so that Python's lexical order on str    *)
(* and Snowflake's chronological order on timestamps are two different    *)
(* relations in the model, as they are in the program.                    *)
(***************************************************************************)
EXTENDS Integers, Sequences, FiniteSets, TLC

(***************************************************************************)
(* Bounds of the model.                                                    *)
(***************************************************************************)
\* timestamps of rows are Stride * i half-seconds after the epoch, i in 0..MaxTime
MaxTime == 3
\* half-seconds between two consecutive timestamps of the model (12h + 0.5s)
Stride == 86401
\* DAG runs the scheduler creates
MaxRuns == 2

(***************************************************************************)
(* Program constants.                                                      *)
(***************************************************************************)
HWM_VARIABLE_KEY == "snowflake_pipeline_hwm"
TIMESTAMP_COL == "CREATED_AT"
\* default_args["retries"]
retries == 2

\* the timestamp-column values a row of the table can carry (half-seconds since
\* 1970-01-01 00:00:00 UTC; the session time zone is UTC)
Times == {Stride * i : i \in 0..MaxTime}

(***************************************************************************)
(* Python strings as sequences of character codes.                         *)
(***************************************************************************)
Ord(c) ==
    CASE c = " " -> 32
      [] c = "-" -> 45
      [] c = "." -> 46
      [] c = ":" -> 58
      [] c = "T" -> 84
      [] c = "Z" -> 90

Digit(d) == 48 + d

TwoDigits(n) == << Digit((n \div 10) % 10), Digit(n % 10) >>

\* Python's  a < b  on str: the first differing character decides, a proper
\* prefix is smaller.
StrLt(a, b) ==
    \E k \in 1..(Len(b)) :
        /\ \A j \in 1..(k - 1) : j <= Len(a) /\ a[j] = b[j]
        /\ \/ k = Len(a) + 1
           \/ k <= Len(a) /\ a[k] < b[k]

StrLe(a, b) == a = b \/ StrLt(a, b)

\* Python's max() over a non-empty collection of str
max(S) == CHOOSE s \in S : \A u \in S : StrLe(u, s)

\* "1970-01-DD" of a timestamp (the model stays within January 1970)
DateStr(t) ==
    << Digit(1), Digit(9), Digit(7), Digit(0), Ord("-"), Digit(0), Digit(1), Ord("-") >>
        \o TwoDigits(1 + ((t \div 2) \div 86400))

\* "HH:MM:SS" of a timestamp
TimeStr(t) ==
    LET s == (t \div 2) % 86400
    IN  TwoDigits(s \div 3600) \o << Ord(":") >> \o TwoDigits((s % 3600) \div 60)
            \o << Ord(":") >> \o TwoDigits(s % 60)

\* str() of the datetime the Snowflake connector returns for a timestamp
\* column: datetime.__str__ is isoformat(sep=" "), and the fractional part is
\* printed (six digits) only when the microsecond is not zero.
str(t) ==
    DateStr(t) \o << Ord(" ") >> \o TimeStr(t)
        \o (IF t % 2 = 1
            THEN << Ord("."), Digit(5), Digit(0), Digit(0), Digit(0), Digit(0), Digit(0) >>
            ELSE << >>)

\* the ISO-8601 "T...Z" rendering of a timestamp with a zero fractional part
IsoZ(t) == DateStr(t) \o << Ord("T") >> \o TimeStr(t) \o << Ord("Z") >>

\* the literal "1970-01-01T00:00:00Z" returned on the first run
EPOCH_DEFAULT == IsoZ(0)

\* str() of every timestamp of the model, computed once
StrOf == [t \in Times |-> str(t)]

\* the "T...Z" rendering of every timestamp of the model that has one
IsoOf == [t \in {u \in Times : u % 2 = 0} |-> IsoZ(t)]

\* Snowflake's conversion of the bound string %(hwm)s to a timestamp for the
\* comparison with the timestamp column: both renderings are accepted.
ToTimestamp(s) ==
    CHOOSE t \in Times :
        \/ StrOf[t] = s
        \/ t % 2 = 0 /\ IsoOf[t] = s

(***************************************************************************)
(* State.                                                                  *)
(***************************************************************************)
VARIABLES
    table,       \* the Snowflake table: the timestamp-column values of its rows
    variables,   \* the Airflow Variable store (a function; Variable.get of a key
                 \* outside its domain raises KeyError)
    run,         \* number of DAG runs created so far
    runState,    \* state of the latest DAG run: "none", "running", "success", "failed"
    ti,          \* state of the three task instances of the latest run
    tries,       \* try_number of the three task instances of the latest run
    xcom,        \* XCom of the latest run (a function; xcom_pull of a key
                 \* outside its domain returns None)
    hwm,         \* extract_new_entries: the local hwm of its latest try
    rows,        \* extract_new_entries: what cursor.fetchall() returned
    conn,        \* the Snowflake connection of the latest try: "none", "open", "closed"
    cursor,      \* its cursor: "none", "open", "closed"
    initCalls,   \* aiplatform.init calls of the latest run
    genCalls,    \* model.generate_content calls of the latest run
    prompt,      \* the records carried by the last generate_content call
    raised,      \* the exception the latest task try ended with, "" when it returned
    caught,      \* the exception the latest task try caught and did not re-raise
    setCalls,    \* Variable.set calls of the latest run
    old_hwm,     \* update_watermark: the local old_hwm of its latest try
    startHwm,    \* the Variable store as it was when the latest run was created
    extracted,   \* history: the rows of the batches the Extractor has published
    delivered    \* history: the rows of the batches of the runs that committed

vars == << table, variables, run, runState, ti, tries, xcom, hwm, rows, conn, cursor,
           initCalls, genCalls, prompt, raised, caught, setCalls, old_hwm, startHwm,
           extracted, delivered >>

Tasks == << "extract_new_entries", "call_vertex_ai_agent", "update_watermark" >>

TaskIds == {Tasks[i] : i \in 1..3}

NO_ENTRIES_REPLY == "No new entries to process."

\* the em dash of the source is written "--" here
FALLBACK_REPLY == "Hi (fallback -- agent unreachable)"

\* response.text of a successful generate_content call
Replies == {"Hi"}

NoXCom == [k \in {} |-> << >>]

\* Python's None where a str is expected: no str equals it
None == << -1 >>

NoVariables == [k \in {} |-> << >>]

(***************************************************************************)
(* The Airflow scheduler.                                                  *)
(***************************************************************************)
\* the three tasks without dependencies between them
Upstream_none(task) == {}

\* t_extract >> t_agent >> t_watermark
Upstream(task) ==
    CASE task = "extract_new_entries" -> {}
      [] task = "call_vertex_ai_agent" -> {"extract_new_entries"}
      [] task = "update_watermark" -> {"call_vertex_ai_agent"}

\* the tasks a task depends on, directly or not (the DAG has three tasks)
Ancestors(task) == Upstream(task) \cup UNION {Upstream(u) : u \in Upstream(task)}

\* a task instance is run when its upstream tasks succeeded (trigger rule
\* all_success) and it has not run yet or waits for a retry
Runnable(task) ==
    /\ runState = "running"
    /\ ti[task] \in {"none", "up_for_retry"}
    /\ \A u \in Upstream(task) : ti[u] = "success"

\* the retry policy granting one attempt more than retries + 1
AfterRaise_extra(n) == IF n <= retries + 1 THEN "up_for_retry" ELSE "failed"

\* the retry policy with retries left at 0
AfterRaise_noretry(n) == "failed"

\* state of a task instance whose try number n raised: it is tried again while
\* n <= retries, so a task is attempted at most retries + 1 times
AfterRaise(n) == IF n <= retries THEN "up_for_retry" ELSE "failed"

\* the task's callable raised exc
Raise(task, exc) ==
    LET n == tries[task] + 1
        st == AfterRaise(n)
    IN  /\ tries' = [tries EXCEPT ![task] = n]
        /\ ti' = [k \in TaskIds |->
                    IF k = task THEN st
                    ELSE IF st = "failed" /\ task \in Ancestors(k) THEN "upstream_failed"
                    ELSE ti[k]]
        /\ runState' = IF st = "failed" THEN "failed" ELSE runState
        /\ raised' = exc

\* the task's callable returned
Return(task) ==
    /\ tries' = [tries EXCEPT ![task] = tries[task] + 1]
    /\ ti' = [ti EXCEPT ![task] = "success"]
    /\ runState' = IF \A k \in TaskIds : k = task \/ ti[k] = "success"
                   THEN "success" ELSE runState
    /\ raised' = ""

\* a new DAG run created whether or not the latest run is still active
StartRun_overlapping ==
    /\ run < MaxRuns
    /\ run' = run + 1
    /\ runState' = "running"
    /\ ti' = [k \in TaskIds |-> "none"]
    /\ tries' = [k \in TaskIds |-> 0]
    /\ xcom' = NoXCom
    /\ hwm' = None
    /\ rows' = << >>
    /\ conn' = "none"
    /\ cursor' = "none"
    /\ initCalls' = 0
    /\ genCalls' = 0
    /\ prompt' = << >>
    /\ raised' = ""
    /\ caught' = ""
    /\ setCalls' = 0
    /\ old_hwm' = None
    /\ startHwm' = variables
    /\ UNCHANGED << table, variables, extracted, delivered >>

\* a new DAG run is created only when no run is active (max_active_runs=1);
\* its task instances and its XCom are fresh
StartRun ==
    /\ runState # "running"
    /\ run < MaxRuns
    /\ run' = run + 1
    /\ runState' = "running"
    /\ ti' = [k \in TaskIds |-> "none"]
    /\ tries' = [k \in TaskIds |-> 0]
    /\ xcom' = NoXCom
    /\ hwm' = None
    /\ rows' = << >>
    /\ conn' = "none"
    /\ cursor' = "none"
    /\ initCalls' = 0
    /\ genCalls' = 0
    /\ prompt' = << >>
    /\ raised' = ""
    /\ caught' = ""
    /\ setCalls' = 0
    /\ old_hwm' = None
    /\ startHwm' = variables
    /\ UNCHANGED << table, variables, extracted, delivered >>

\* a row is inserted into the table by its producers
InsertRow(t) ==
    /\ t \notin table
    /\ table' = table \cup {t}
    /\ UNCHANGED << variables, run, runState, ti, tries, xcom, hwm, rows, conn, cursor,
                    initCalls, genCalls, prompt, raised, caught, setCalls, old_hwm,
                    startHwm, extracted, delivered >>

(***************************************************************************)
(* Task 1: extract_new_entries.                                            *)
(***************************************************************************)
\* _get_last_hwm ignoring the stored variable
get_last_hwm_epoch(vs) == EPOCH_DEFAULT

get_last_hwm(vs) ==
    IF HWM_VARIABLE_KEY \in DOMAIN vs THEN vs[HWM_VARIABLE_KEY] ELSE EPOCH_DEFAULT

\* ORDER BY ts_col ASC: the i-th row has i - 1 rows before it
OrderByAsc(S) ==
    [i \in 1..Cardinality(S) |-> CHOOSE x \in S : Cardinality({y \in S : y < x}) = i - 1]

\* the query selecting with >= instead of >
Query_inclusive(tbl, h) == OrderByAsc({t \in tbl : t >= ToTimestamp(h)})

\* SELECT * FROM table WHERE ts_col > %(hwm)s ORDER BY ts_col ASC
Query(tbl, h) == OrderByAsc({t \in tbl : t > ToTimestamp(h)})

\* records = [dict(zip(columns, row)) for row in rows]
Records(rs) == [i \in 1..Len(rs) |-> [CREATED_AT |-> rs[i]]]

\* step 6 taking the first record of the batch instead of the maximum
NewHwm_first(records, h) ==
    IF records # << >> THEN StrOf[records[1][TIMESTAMP_COL]] ELSE h

\* step 6 with an empty batch falling back to the first-run default
NewHwm_reset(records, h) ==
    IF records # << >>
    THEN max({StrOf[records[i][TIMESTAMP_COL]] : i \in 1..Len(records)})
    ELSE EPOCH_DEFAULT

\* step 6 writing the maximum in the "T...Z" form of the first-run default
\* where the timestamp has one
NewHwm_iso(records, h) ==
    IF records # << >>
    THEN max({IF records[i][TIMESTAMP_COL] % 2 = 0
              THEN IsoOf[records[i][TIMESTAMP_COL]]
              ELSE StrOf[records[i][TIMESTAMP_COL]] : i \in 1..Len(records)})
    ELSE h

\* step 6 of extract_new_entries
NewHwm(records, h) ==
    IF records # << >>
    THEN max({StrOf[records[i][TIMESTAMP_COL]] : i \in 1..Len(records)})
    ELSE h

\* json.dumps(records, default=str): the datetime of each record is written
\* as its str()
json_dumps(records) ==
    [i \in 1..Len(records) |-> [CREATED_AT |-> StrOf[records[i][TIMESTAMP_COL]]]]

\* how a try of extract_new_entries ends: it returns, or hook.get_conn(),
\* conn.cursor() (line 188), the try block of step 4, cursor.close(),
\* conn.close() or the processing of step 5 raises
ExtractOutcomes ==
    {"ok", "connect_error", "cursor_error", "query_error",
     "cursor_close_error", "conn_close_error", "processing_error"}

\* the Extractor advancing the stored watermark itself as soon as it has a batch
extract_new_entries_persisting(outcome) ==
    \E h \in {get_last_hwm(variables)} :
    \E fetched \in {Query(table, h)} :
    \E records \in {Records(fetched)} :
        /\ Runnable("extract_new_entries")
        /\ hwm' = h
        /\ conn' = CASE outcome = "connect_error" -> "none"
                     [] outcome \in {"cursor_error", "cursor_close_error",
                                     "conn_close_error"} -> "open"
                     [] OTHER -> "closed"
        /\ cursor' = CASE outcome \in {"connect_error", "cursor_error"} -> "none"
                       [] outcome = "cursor_close_error" -> "open"
                       [] OTHER -> "closed"
        /\ IF outcome = "ok"
           THEN /\ rows' = fetched
                /\ extracted' = extracted \cup {fetched[i] : i \in 1..Len(fetched)}
                /\ xcom' = ("new_records" :> json_dumps(records))
                           @@ ("new_hwm" :> NewHwm(records, h))
                           @@ ("record_count" :> Len(records))
                           @@ xcom
                /\ variables' = (HWM_VARIABLE_KEY :> NewHwm(records, h)) @@ variables
                /\ Return("extract_new_entries")
           ELSE /\ rows' = << >>
                /\ xcom' = xcom
                /\ extracted' = extracted
                /\ variables' = variables
                /\ Raise("extract_new_entries", outcome)
        /\ caught' = ""
        /\ UNCHANGED << table, run, initCalls, genCalls, prompt, setCalls,
                        old_hwm, startHwm, delivered >>

extract_new_entries(outcome) ==
    \E h \in {get_last_hwm(variables)} :
    \E fetched \in {Query(table, h)} :
    \E records \in {Records(fetched)} :
        /\ Runnable("extract_new_entries")
        /\ hwm' = h
        /\ conn' = CASE outcome = "connect_error" -> "none"
                     [] outcome \in {"cursor_error", "cursor_close_error",
                                     "conn_close_error"} -> "open"
                     [] OTHER -> "closed"
        /\ cursor' = CASE outcome \in {"connect_error", "cursor_error"} -> "none"
                       [] outcome = "cursor_close_error" -> "open"
                       [] OTHER -> "closed"
        /\ IF outcome = "ok"
           THEN /\ rows' = fetched
                /\ extracted' = extracted \cup {fetched[i] : i \in 1..Len(fetched)}
                /\ xcom' = ("new_records" :> json_dumps(records))
                           @@ ("new_hwm" :> NewHwm(records, h))
                           @@ ("record_count" :> Len(records))
                           @@ xcom
                /\ Return("extract_new_entries")
           ELSE /\ rows' = << >>
                /\ xcom' = xcom
                /\ extracted' = extracted
                /\ Raise("extract_new_entries", outcome)
        /\ caught' = ""
        /\ UNCHANGED << table, variables, run, initCalls, genCalls, prompt, setCalls,
                        old_hwm, startHwm, delivered >>

(***************************************************************************)
(* Task 2: call_vertex_ai_agent.                                           *)
(***************************************************************************)
AgentOutcomes == {"ok", "init_error", "generate_error"}

\* step 1: records = [] when xcom_pull returned None, else json.loads of the
\* pulled document (the document is modelled by the value it parses to)
PulledRecords(xc) ==
    IF "new_records" \notin DOMAIN xc THEN << >> ELSE xc["new_records"]

\* the no-op path never taken
SkipAgent_never(records) == FALSE

\* "if not records": the no-op path that skips Vertex AI
SkipAgent(records) == records = << >>

\* both except clauses ending with raise
Reraises_all(outcome) == outcome # "ok"

\* whether the except clause that handles the failure ends with raise: the
\* one around aiplatform.init does, the one around model.generate_content
\* does not
Reraises(outcome) == outcome = "init_error"

\* step 4 without the fallback assignment
AgentReply_text(outcome, text) == text

\* step 4: the reply the try/except around model.generate_content leaves in
\* agent_reply
AgentReply(outcome, text) ==
    IF outcome = "generate_error" THEN FALLBACK_REPLY ELSE text

call_vertex_ai_agent(outcome, text) ==
    LET records == PulledRecords(xcom)
    IN  /\ Runnable("call_vertex_ai_agent")
        /\ IF SkipAgent(records)
           THEN \* no-op: zero records
                /\ xcom' = ("agent_response" :> NO_ENTRIES_REPLY) @@ xcom
                /\ Return("call_vertex_ai_agent")
                /\ caught' = ""
                /\ UNCHANGED << initCalls, genCalls, prompt >>
           ELSE IF outcome = "init_error" /\ Reraises(outcome)
           THEN \* aiplatform.init raised
                /\ initCalls' = initCalls + 1
                /\ Raise("call_vertex_ai_agent", outcome)
                /\ caught' = ""
                /\ UNCHANGED << xcom, genCalls, prompt >>
           ELSE \* model.generate_content(prompt) is called
                /\ initCalls' = initCalls + 1
                /\ genCalls' = genCalls + 1
                /\ prompt' = records
                /\ IF outcome = "generate_error" /\ Reraises(outcome)
                   THEN /\ Raise("call_vertex_ai_agent", outcome)
                        /\ caught' = ""
                        /\ xcom' = xcom
                   ELSE /\ xcom' = ("agent_response" :> AgentReply(outcome, text)) @@ xcom
                        /\ caught' = IF outcome = "ok" THEN "" ELSE outcome
                        /\ Return("call_vertex_ai_agent")
        /\ UNCHANGED << table, variables, run, hwm, rows, conn, cursor, setCalls,
                        old_hwm, startHwm, extracted, delivered >>

(***************************************************************************)
(* Task 3: update_watermark.                                               *)
(***************************************************************************)
\* xcom_pull handing out a default for an absent key
xcom_pull_default(xc, key) == IF key \in DOMAIN xc THEN xc[key] ELSE EPOCH_DEFAULT

xcom_pull(xc, key) == IF key \in DOMAIN xc THEN xc[key] ELSE None

\* the None check left out
MissingHwm_unchecked(new_hwm) == FALSE

\* "if new_hwm is None"
MissingHwm(new_hwm) == new_hwm = None

\* the watermark kept where it was when the agent fell back
PersistedValue_keep(new_hwm, old, agent_response) ==
    IF agent_response = FALLBACK_REPLY THEN old ELSE new_hwm

\* the value handed to Variable.set
PersistedValue(new_hwm, old, agent_response) == new_hwm

update_watermark ==
    LET new_hwm == xcom_pull(xcom, "new_hwm")
        agent_response == IF "agent_response" \in DOMAIN xcom
                          THEN xcom["agent_response"] ELSE "None"
    IN  /\ Runnable("update_watermark")
        /\ IF MissingHwm(new_hwm)
           THEN /\ Raise("update_watermark", "ValueError")
                /\ UNCHANGED << variables, setCalls, old_hwm, delivered >>
           ELSE /\ old_hwm' = get_last_hwm(variables)
                /\ variables' = (HWM_VARIABLE_KEY :>
                                    PersistedValue(new_hwm, get_last_hwm(variables),
                                                   agent_response))
                                @@ variables
                /\ setCalls' = setCalls + 1
                /\ delivered' = delivered \cup {rows[i] : i \in 1..Len(rows)}
                /\ Return("update_watermark")
        /\ caught' = ""
        /\ UNCHANGED << table, run, xcom, hwm, rows, conn, cursor, initCalls, genCalls,
                        prompt, startHwm, extracted >>

(***************************************************************************)
(* The pipeline under the scheduler.                                       *)
(***************************************************************************)
Init ==
    /\ table = {}
    /\ variables = NoVariables
    /\ run = 0
    /\ runState = "none"
    /\ ti = [k \in TaskIds |-> "none"]
    /\ tries = [k \in TaskIds |-> 0]
    /\ xcom = NoXCom
    /\ hwm = None
    /\ rows = << >>
    /\ conn = "none"
    /\ cursor = "none"
    /\ initCalls = 0
    /\ genCalls = 0
    /\ prompt = << >>
    /\ raised = ""
    /\ caught = ""
    /\ setCalls = 0
    /\ old_hwm = None
    /\ startHwm = NoVariables
    /\ extracted = {}
    /\ delivered = {}

Next ==
    \/ \E t \in Times : InsertRow(t)
    \/ StartRun
    \/ \E outcome \in ExtractOutcomes : extract_new_entries(outcome)
    \/ \E outcome \in AgentOutcomes, text \in Replies : call_vertex_ai_agent(outcome, text)
    \/ update_watermark

Spec == Init /\ [][Next]_vars

\* the scheduler eventually runs every runnable task instance
FairSpec ==
    /\ Spec
    /\ WF_vars(\E outcome \in ExtractOutcomes : extract_new_entries(outcome))
    /\ WF_vars(\E outcome \in AgentOutcomes, text \in Replies :
                    call_vertex_ai_agent(outcome, text))
    /\ WF_vars(update_watermark)

(***************************************************************************)
(* The task callables applied to any context: the XCom of the run holds    *)
(* any subset of the keys the upstream tasks push, as when an upstream     *)
(* task instance was marked successful by hand or its XCom was deleted.    *)
(***************************************************************************)
TaskInit ==
    /\ table = {}
    /\ \E t \in Times :
          variables \in {NoVariables, (HWM_VARIABLE_KEY :> StrOf[t])}
    /\ run = 1
    /\ runState = "running"
    /\ \E p \in 1..3 :
          /\ ti = [k \in TaskIds |->
                      IF \E i \in 1..(p - 1) : Tasks[i] = k THEN "success" ELSE "none"]
          /\ \E present \in SUBSET {"new_records", "new_hwm", "record_count",
                                    "agent_response"},
                t \in Times, n \in 0..1, reply \in {NO_ENTRIES_REPLY, FALLBACK_REPLY} :
                LET records == Records(IF n = 0 THEN << >> ELSE << t >>)
                    full == ("new_records" :> json_dumps(records))
                            @@ ("new_hwm" :> StrOf[t])
                            @@ ("record_count" :> n)
                            @@ ("agent_response" :> reply)
                IN  /\ p = 1 => present = {}
                    /\ p = 2 => "agent_response" \notin present
                    /\ xcom = [k \in present |-> full[k]]
    /\ tries = [k \in TaskIds |-> 0]
    /\ hwm = None
    /\ rows = << >>
    /\ conn = "none"
    /\ cursor = "none"
    /\ initCalls = 0
    /\ genCalls = 0
    /\ prompt = << >>
    /\ raised = ""
    /\ caught = ""
    /\ setCalls = 0
    /\ old_hwm = None
    /\ startHwm = variables
    /\ extracted = {}
    /\ delivered = {}

TaskSpec == TaskInit /\ [][Next]_vars

(***************************************************************************)
(* Properties.                                                             *)
(***************************************************************************)
Extracted == ti["extract_new_entries"] = "success"

Notified == ti["call_vertex_ai_agent"] = "success"

Committed == ti["update_watermark"] = "success"

\* C1 as stated: for every watermark W read by the Extractor and every batch
\* fetched with timestamp_col > W, the new watermark W' is >= W under lexical
\* string ordering.
C1_LexicalNeverDecreases == Extracted => StrLe(hwm, xcom["new_hwm"])

\* C1, amended: W' >= W in the order of the timestamps the two strings denote
\* (the order the query compares in), W' = W when the batch is empty, and every
\* commit leaves a watermark that is not earlier than the one it replaces.
C1_WatermarkNeverDecreases ==
    /\ Extracted =>
          /\ ToTimestamp(hwm) <= ToTimestamp(xcom["new_hwm"])
          /\ rows = << >> => xcom["new_hwm"] = hwm
    /\ setCalls > 0 =>
          ToTimestamp(old_hwm) <= ToTimestamp(variables[HWM_VARIABLE_KEY])

\* a second run committed a non-empty batch over a watermark the first run persisted
C1_Witness ==
    /\ run = 2
    /\ Committed
    /\ rows # << >>
    /\ old_hwm # EPOCH_DEFAULT
    /\ variables[HWM_VARIABLE_KEY] # old_hwm

C3_FallbackThenCommit ==
    \A r \in 1..MaxRuns :
        /\ [](run = r /\ Extracted /\ rows # << >> /\ caught = "generate_error"
                => Notified /\ xcom["agent_response"] = FALLBACK_REPLY)
        /\ (run = r /\ Extracted /\ rows # << >> /\ caught = "generate_error")
              ~> (/\ run = r
                  /\ Committed
                  /\ xcom["agent_response"] = FALLBACK_REPLY
                  /\ variables[HWM_VARIABLE_KEY] = xcom["new_hwm"])

\* the Committer advanced the watermark after a fallback reply
C3_Witness ==
    /\ Committed
    /\ rows # << >>
    /\ xcom["agent_response"] = FALLBACK_REPLY
    /\ variables[HWM_VARIABLE_KEY] = xcom["new_hwm"]
    /\ variables # startHwm

C5_ExtractFailureAborts ==
    /\ ti["extract_new_entries"] \in {"up_for_retry", "failed"} =>
          /\ DOMAIN xcom = {}
          /\ tries["call_vertex_ai_agent"] = 0
          /\ tries["update_watermark"] = 0
          /\ initCalls = 0
          /\ genCalls = 0
          /\ setCalls = 0
          /\ variables = startHwm
    /\ ti["extract_new_entries"] = "failed" =>
          /\ runState = "failed"
          /\ tries["extract_new_entries"] = retries + 1
          /\ ti["call_vertex_ai_agent"] = "upstream_failed"
          /\ ti["update_watermark"] = "upstream_failed"

\* Extract failed for good in a run that had new rows to fetch
C5_Witness ==
    /\ ti["extract_new_entries"] = "failed"
    /\ HWM_VARIABLE_KEY \in DOMAIN variables
    /\ \E t \in table : t > ToTimestamp(variables[HWM_VARIABLE_KEY])

\* C6: while the new-watermark value is absent from the run's XCom, every try
\* of update_watermark raises ValueError, Variable.set is not called and the
\* persisted watermark stays exactly as it was.
C6_AbsentHwmNotPersisted ==
    "new_hwm" \notin DOMAIN xcom =>
        /\ setCalls = 0
        /\ variables = startHwm
        /\ ~ Committed
        /\ tries["update_watermark"] > 0 =>
              /\ raised = "ValueError"
              /\ ti["update_watermark"] \in {"up_for_retry", "failed"}

\* update_watermark was tried after a successful Notifier with new_hwm absent
C6_Witness ==
    /\ "new_hwm" \notin DOMAIN xcom
    /\ Notified
    /\ tries["update_watermark"] > 0
    /\ HWM_VARIABLE_KEY \in DOMAIN variables

\* C7: with an empty batch the Notifier neither initialises the platform nor
\* sends a generation request, does not fail, and the reply it publishes is the
\* fixed "no entries" string.
C7_EmptyBatchSkipsAgent ==
    ("new_records" \in DOMAIN xcom /\ xcom["new_records"] = << >>) =>
        /\ initCalls = 0
        /\ genCalls = 0
        /\ prompt = << >>
        /\ ti["call_vertex_ai_agent"] \notin {"up_for_retry", "failed"}
        /\ Notified => xcom["agent_response"] = NO_ENTRIES_REPLY

\* the Notifier completed on an empty batch although the table has rows
C7_Witness ==
    /\ Notified
    /\ xcom["new_records"] = << >>
    /\ xcom["agent_response"] = NO_ENTRIES_REPLY
    /\ table # {}

\* C8: the new watermark the Extractor publishes is the (rendering of the)
\* greatest timestamp-column value of the batch when the batch is not empty,
\* and the watermark it read when the batch is empty; the published count is
\* the size of the batch.
C8_NewHwmIsBatchMaximum ==
    Extracted =>
        /\ xcom["record_count"] = Len(rows)
        /\ xcom["new_hwm"] =
              IF rows # << >>
              THEN StrOf[CHOOSE t \in {rows[i] : i \in 1..Len(rows)} :
                            \A i \in 1..Len(rows) : rows[i] <= t]
              ELSE hwm

\* a batch of several rows whose first row is not the latest
C8_Witness ==
    /\ Extracted
    /\ Len(rows) >= 2
    /\ xcom["new_hwm"] = StrOf[rows[Len(rows)]]
    /\ xcom["new_hwm"] # StrOf[rows[1]]

\* C9: every try of the Extractor uses as W the value of the watermark
\* variable when the variable exists and the epoch default
\* 1970-01-01T00:00:00Z when it does not, and fetches the rows later than W.
C9_ExtractorReadsPersistedOrEpoch ==
    [][(runState = "running"
        /\ tries'["extract_new_entries"] # tries["extract_new_entries"])
       => /\ hwm' = IF HWM_VARIABLE_KEY \in DOMAIN variables
                    THEN variables[HWM_VARIABLE_KEY]
                    ELSE << 49, 57, 55, 48, 45, 48, 49, 45, 48, 49, 84,
                            48, 48, 58, 48, 48, 58, 48, 48, 90 >>
          /\ Extracted' =>
                {rows'[i] : i \in 1..Len(rows')}
                    = {t \in table : t > ToTimestamp(hwm')}]_vars

\* the Extractor of a second run read the watermark the first run persisted
C9_Witness ==
    /\ run = 2
    /\ tries["extract_new_entries"] > 0
    /\ HWM_VARIABLE_KEY \in DOMAIN variables
    /\ hwm = variables[HWM_VARIABLE_KEY]
    /\ hwm # EPOCH_DEFAULT

C11_ConnectionAlwaysReleased == conn # "none" => (conn = "closed" /\ cursor # "open")

\* C12 as stated: a Notifier or Committer try that finds one of the keys it
\* pulls absent fails.
C12_AbsentKeyFailsStep ==
    /\ (tries["call_vertex_ai_agent"] > 0 /\ "new_records" \notin DOMAIN xcom) =>
          ti["call_vertex_ai_agent"] \in {"up_for_retry", "failed"}
    /\ (tries["update_watermark"] > 0
        /\ \E k \in {"new_hwm", "record_count", "agent_response"} : k \notin DOMAIN xcom) =>
          ti["update_watermark"] \in {"up_for_retry", "failed"}

\* C12, amended: only an absent new_hwm makes a step fail (the Committer raises
\* ValueError and persists nothing).  The Notifier treats an absent new_records
\* as an empty batch: it publishes the "no entries" reply and succeeds without
\* contacting the platform.  The Committer persists a present new_hwm whether
\* or not record_count and agent_response are present.
C12_OnlyAbsentHwmFails ==
    /\ (tries["call_vertex_ai_agent"] > 0 /\ "new_records" \notin DOMAIN xcom) =>
          /\ Notified
          /\ xcom["agent_response"] = NO_ENTRIES_REPLY
          /\ initCalls = 0
          /\ genCalls = 0
    /\ (tries["update_watermark"] > 0 /\ "new_hwm" \notin DOMAIN xcom) =>
          /\ ti["update_watermark"] \in {"up_for_retry", "failed"}
          /\ raised = "ValueError"
          /\ setCalls = 0
    /\ (tries["update_watermark"] > 0 /\ "new_hwm" \in DOMAIN xcom) =>
          /\ Committed
          /\ setCalls = 1
          /\ variables[HWM_VARIABLE_KEY] = xcom["new_hwm"]

\* the Notifier and then the Committer completed with new_records and
\* record_count absent
C12_Witness ==
    /\ tries["call_vertex_ai_agent"] > 0
    /\ tries["update_watermark"] > 0
    /\ Committed
    /\ "new_records" \notin DOMAIN xcom
    /\ "record_count" \notin DOMAIN xcom

\* C13: the persisted watermark changes only in a step of update_watermark
\* that returns (one Variable.set call); no try of the Extractor or of the
\* Notifier, failed, retried or successful, and no other step changes it.
C13_OnlyCommitterWrites ==
    [][variables' # variables =>
          /\ Runnable("update_watermark")
          /\ ti'["update_watermark"] = "success"
          /\ setCalls' = setCalls + 1
          /\ tries'["extract_new_entries"] = tries["extract_new_entries"]
          /\ tries'["call_vertex_ai_agent"] = tries["call_vertex_ai_agent"]]_vars

\* the watermark was advanced in a run whose Extractor and Notifier were retried
C13_Witness ==
    /\ variables # startHwm
    /\ tries["extract_new_entries"] > 1
    /\ tries["call_vertex_ai_agent"] > 1
    /\ setCalls = 1

\* C14: a DAG run is created only when the latest run has ended, task
\* instances are tried only in the run that is active, and the watermark a
\* run's Commit overwrites is the value that run's Extract read.
C14_OneRunInFlight ==
    [][/\ run' # run => (run' = run + 1 /\ runState \in {"none", "success", "failed"})
       /\ (run' = run /\ tries' # tries) => runState = "running"
       /\ (ti'["update_watermark"] = "success" /\ ti["update_watermark"] # "success") =>
             /\ get_last_hwm(variables) = hwm
             /\ old_hwm' = hwm]_vars

\* the Commit of a second run replaced the watermark its Extract had read
C14_Witness ==
    /\ run = 2
    /\ Committed
    /\ old_hwm = hwm
    /\ hwm # EPOCH_DEFAULT
    /\ variables[HWM_VARIABLE_KEY] # hwm

\* C15: every task is attempted at most 1 + retries times; a task fails for
\* good only on its last attempt, the run is then aborted and no later task is
\* attempted; and under fair scheduling of the task instances every run ends,
\* successful or aborted.
C15_EveryRunTerminates ==
    /\ [](\A i \in 1..3 :
             /\ tries[Tasks[i]] <= 1 + retries
             /\ ti[Tasks[i]] = "failed" =>
                   /\ tries[Tasks[i]] = 1 + retries
                   /\ runState = "failed"
                   /\ \A j \in (i + 1)..3 :
                         tries[Tasks[j]] = 0 /\ ti[Tasks[j]] = "upstream_failed")
    /\ \A r \in 1..MaxRuns :
          (run = r) ~> (run = r /\ runState \in {"success", "failed"})

\* a run aborted by the last attempt of the Notifier, after the Extractor had
\* needed all of its attempts
C15_Witness ==
    /\ runState = "failed"
    /\ tries["extract_new_entries"] = 1 + retries
    /\ ti["call_vertex_ai_agent"] = "failed"
    /\ tries["call_vertex_ai_agent"] = 1 + retries
    /\ tries["update_watermark"] = 0

\* C16: the batch a run's Extractor publishes holds no row of the batch of a
\* run that committed before it, and every row of a committed batch is at or
\* below the persisted watermark.
C16_NoRowDeliveredTwice ==
    [][/\ (tries'["extract_new_entries"] # tries["extract_new_entries"] /\ Extracted') =>
             {rows'[i] : i \in 1..Len(rows')} \cap delivered = {}
       /\ \A t \in delivered' : t <= ToTimestamp(variables'[HWM_VARIABLE_KEY])]_vars

\* a second run extracted new rows after the first run had committed its batch
C16_Witness ==
    /\ run = 2
    /\ Extracted
    /\ rows # << >>
    /\ delivered # {}
    /\ \E t \in delivered : t \in table

\* C17: the persisted watermark is absent (its initial state), the epoch
\* default 1970-01-01T00:00:00Z, or str() of the timestamp-column value of a
\* row of a batch the Extractor has published; and the value a Commit writes is
\* the epoch default or str() of such a row.
C17_WatermarkIsDefaultOrExtractedRow ==
    HWM_VARIABLE_KEY \in DOMAIN variables =>
        /\ setCalls > 0 \/ variables = startHwm
        /\ \/ variables[HWM_VARIABLE_KEY] =
                 << 49, 57, 55, 48, 45, 48, 49, 45, 48, 49, 84,
                    48, 48, 58, 48, 48, 58, 48, 48, 90 >>
           \/ \E t \in extracted : variables[HWM_VARIABLE_KEY] = str(t)

\* the second run persisted the timestamp of a row its Extractor had fetched,
\* over the one the first run had persisted
C17_Witness ==
    /\ run = 2
    /\ Committed
    /\ variables # startHwm
    /\ old_hwm # EPOCH_DEFAULT
    /\ \E i \in 1..Len(rows) : variables[HWM_VARIABLE_KEY] = str(rows[i])

====
